---- MODULE Spec2Model ----
(***************************************************************************)
(* Chit-fund bookkeeping backend: sequential id generation, ledger running *)
(* balance and statements, transactions and their reversal, installment    *)
(* payment and status, receipts and their numbering, group membership.     *)
(* Each request handler is one atomic action (requests are                 *)
(* executed one at a time); Mongoose pre-save hooks and schema validators   *)
(* are part of the action of the handler that saves the document.          *)
(* Where requests overlap in time, a handler is split at the await between *)
(* its read and its write, and procs holds what each request has read.     *)
(***************************************************************************)
EXTENDS Integers, Sequences, FiniteSets, TLC

VARIABLES
    now,        \* wall clock, in whole days
    year,       \* calendar year of the wall clock
    bname,      \* Branch collection: the name (character codes) of each branch
    resp,       \* outcome of the last step: the request handled (op "none" for a
                \* clock tick), whether it succeeded, the record it addressed and,
                \* for some requests, the request body (req, paid) and the answer
    idIndex,    \* unique index on the generated id of one collection: the
                \* stored id strings (digits after the prefix), in string order
    idCreated,  \* number of records of the collection created so far
    idDeleted,  \* number of records of the collection deleted so far
    idNew,      \* id the pre-save hook computed for the last creation
    members,    \* Member collection: the ids of the stored members
    ledger,     \* Ledger collection, in creation (createdAt) order
    txns,       \* Transaction collection, in creation order
    inst,       \* the Installment document under observation
    paidLog,    \* amounts of the recordPayment calls that reported success
    receipts,   \* Receipt collection, in creation order
    scheme,     \* the Scheme document
    group,      \* the Group document under observation
    updates,    \* number of update (PUT) requests made on ledger, transactions, installment
    payout,     \* the Payout document under observation
    roles,      \* Employee collection: the role of each employee
    procs       \* requests in flight whose handler is between two awaits: for each,
                \* the handler's position (pc) and the values it has read so far

idVars == <<idIndex, idCreated, idDeleted, idNew>>
instVars == <<inst, paidLog, receipts>>
grpVars == <<scheme, group>>
vars == <<now, year, bname, resp, idVars, members, ledger, txns, instVars, grpVars, updates,
         payout, roles, procs>>

NoId == <<>>      \* no id: the collection is empty / no creation yet
NoRef == "none"   \* a reference missing from a request body
Undef == <<>>     \* a number missing from a request body; <<v>> is the number v

\* ---------------------------------------------------------------------------
\* Bounds
\* ---------------------------------------------------------------------------
MaxCreate == 1001      \* creation requests explored per collection
MaxDelete == 1         \* deletion requests explored per collection
DeleteWindow == 3      \* deletions are explored while the collection is this small
MaxTime == 1           \* last day the clock reaches
MaxLedger == 3         \* ledger entries explored
MaxAmount == 2         \* largest amount in a request
MaxTxns == 1           \* transactions explored
MaxPayments == 2       \* recordPayment calls explored that save the installment
MaxDuration == 3       \* largest scheme duration_months / payout_month in a request
MaxMin == 3            \* largest scheme min_members
MaxUpdates == 1        \* update (PUT) requests explored on ledger, transactions, installment
NewYearWindow == 3     \* the year changes are explored while the collection is this small
MaxReceipts == 3       \* receipts explored that createReceipt stores
MaxRace == 3           \* records explored that overlapping creations store

\* ---------------------------------------------------------------------------
\* Generated ids: <PREFIX> followed by the decimal counter, padStart(3, '0')
\* ---------------------------------------------------------------------------
PadWidth == 3

RECURSIVE Digits(_)
\* String(n): the decimal digits of n, most significant first
Digits(n) == IF n < 10 THEN <<n>> ELSE Append(Digits(n \div 10), n % 10)

RECURSIVE PadStart(_, _)
\* s.padStart(w, '0')
PadStart(s, w) == IF Len(s) >= w THEN s ELSE PadStart(<<0>> \o s, w)

RECURSIVE ParseInt(_)
\* parseInt(s, 10) of a digit string
ParseInt(s) == IF Len(s) = 0 THEN 0
               ELSE 10 * ParseInt(SubSeq(s, 1, Len(s) - 1)) + s[Len(s)]

RECURSIVE StrLess(_, _)
\* s < t in the binary string order the database sorts by
StrLess(s, t) ==
    IF Len(t) = 0 THEN FALSE
    ELSE IF Len(s) = 0 THEN TRUE
    ELSE IF s[1] # t[1] THEN s[1] < t[1]
    ELSE StrLess(Tail(s), Tail(t))

\* findOne({}, {}, { sort: { id: -1 } }): the last key of the index, or NoId
FindLastId(index) == IF Len(index) = 0 THEN NoId ELSE index[Len(index)]

\* the pre-save hook: 'MEM001', or the last id's number + 1 padded to 3 digits
NextId(index) ==
    LET last == FindLastId(index)
    IN  IF last = NoId THEN PadStart(Digits(1), PadWidth)
        ELSE PadStart(Digits(ParseInt(last) + 1), PadWidth)

\* insertion of a key into the unique index, keeping string order
IndexInsert(index, key) ==
    LET k == Cardinality({i \in 1..Len(index) : StrLess(index[i], key)})
    IN  SubSeq(index, 1, k) \o <<key>> \o SubSeq(index, k + 1, Len(index))

\* a collection without the unique index on the id field
HasKeyNoIndex(index, key) == FALSE
HasKey(index, key) == \E i \in 1..Len(index) : index[i] = key

\* Model.create() of a record without an explicit id: the hook assigns the id,
\* the insert fails with a duplicate-key error when the id is already stored
CreateRecord ==
    /\ idCreated < MaxCreate
    /\ LET newId == NextId(idIndex)
       IN  /\ idNew' = newId
           /\ IF HasKey(idIndex, newId)
              THEN /\ resp' = [op |-> "createRecord", ok |-> FALSE, arg |-> 0]
                   /\ UNCHANGED <<idIndex, idCreated>>
              ELSE /\ resp' = [op |-> "createRecord", ok |-> TRUE, arg |-> 0]
                   /\ idIndex' = IndexInsert(idIndex, newId)
                   /\ idCreated' = idCreated + 1
    /\ UNCHANGED <<idDeleted, now, year, roles, payout, bname, procs, members, ledger, txns, instVars, grpVars, updates>>

\* findOneAndDelete of one stored record (explored in a small collection,
\* for a record whose id is longer than PadWidth digits, and for the record
\* that sorts last once the next id is already taken)
DeleteRecord ==
    /\ idDeleted < MaxDelete
    /\ \E i \in 1..Len(idIndex) :
          /\ \/ Len(idIndex) <= DeleteWindow
             \/ Len(idIndex[i]) > PadWidth
             \/ (i = Len(idIndex) /\ HasKey(idIndex, NextId(idIndex)))
          /\ idIndex' = SubSeq(idIndex, 1, i - 1) \o SubSeq(idIndex, i + 1, Len(idIndex))
    /\ idDeleted' = idDeleted + 1
    /\ resp' = [op |-> "deleteRecord", ok |-> TRUE, arg |-> 0]
    /\ UNCHANGED <<idCreated, idNew, now, year, roles, payout, bname, procs, members, ledger, txns, instVars, grpVars, updates>>

\* two requests can be in flight at once; a handler that is not running is Idle
Procs == {"p1", "p2"}
Idle == [pc |-> "idle"]

\* Model.create() in request p, first half: the pre-save hook reads the record
\* with the largest id and computes the next id from it (at: the number of
\* records inserted so far, which identifies the snapshot the hook read)
HookReadLastId(p) ==
    /\ procs[p].pc = "idle"
    /\ idCreated < MaxRace
    /\ procs' = [procs EXCEPT ![p] = [pc |-> "read", at |-> idCreated, id |-> NextId(idIndex)]]
    /\ UNCHANGED <<resp, idVars, now, year, roles, payout, bname, members, ledger, txns, instVars, grpVars, updates>>

\* Model.create() in request p, second half: the insert of the document with
\* the id the hook computed; the unique index rejects an id already stored
InsertRecord(p) ==
    /\ procs[p].pc = "read"
    /\ LET newId == procs[p].id
       IN  /\ idNew' = newId
           /\ IF HasKey(idIndex, newId)
              THEN /\ resp' = [op |-> "createRecord", ok |-> FALSE, arg |-> 0]
                   /\ procs' = [procs EXCEPT ![p].pc = "failed"]
                   /\ UNCHANGED <<idIndex, idCreated>>
              ELSE /\ resp' = [op |-> "createRecord", ok |-> TRUE, arg |-> 0]
                   /\ procs' = [procs EXCEPT ![p].pc = "done"]
                   /\ idIndex' = IndexInsert(idIndex, newId)
                   /\ idCreated' = idCreated + 1
    /\ UNCHANGED <<idDeleted, now, year, roles, payout, bname, members, ledger, txns, instVars, grpVars, updates>>

\* request p has answered; its handler is free for the next request
EndRequest(p) ==
    /\ procs[p].pc \in {"done", "failed"}
    /\ procs' = [procs EXCEPT ![p] = Idle]
    /\ UNCHANGED <<resp, idVars, now, year, roles, payout, bname, members, ledger, txns, instVars, grpVars, updates>>


\* ---------------------------------------------------------------------------
\* Reference data
\* ---------------------------------------------------------------------------
MemberIds == {"m1", "m2"}          \* members that can be registered
Branches == {"b1", "b2"}           \* branches are only ever soft-deleted

\* branch names, as the character codes of "Zeta", "Beta" and "alpha"
Zeta == <<90, 101, 116, 97>>
Beta == <<66, 101, 116, 97>>
Alpha == <<97, 108, 112, 104, 97>>
BranchNames == {Zeta, Beta, Alpha}

\* the branch_id of a member document
MemberBranch(m) == IF m = "m1" THEN "b1" ELSE "b2"
GroupExists == group.exists

\* findById: does the reference resolve
BranchFound(b) == b \in Branches
MemberFound(m) == m \in members
GroupFound(g) == g = "g1" /\ GroupExists
TransactionFound(t) == t \in 1..Len(txns)

\* x || 0
OrZero(x) == IF x = Undef THEN 0 ELSE x[1]

\* the clock advances
Tick ==
    /\ now < MaxTime
    /\ now' = now + 1
    /\ resp' = [op |-> "none", ok |-> TRUE, arg |-> 0]
    /\ UNCHANGED <<year, roles, payout, bname, procs, idVars, members, ledger, txns, instVars, grpVars, updates>>

\* ---------------------------------------------------------------------------
\* Ledger: running balance per member
\* ---------------------------------------------------------------------------
OptAmounts == {Undef} \cup {<<v>> : v \in 0..MaxAmount}
Debits == {Undef, <<1>>}              \* debit values in a request
Credits == {Undef, <<MaxAmount>>}     \* credit values in a request

\* the ledger_id index: entries are never deleted, ids are in creation order
LedgerIdIndex(l) == [i \in 1..Len(l) |-> l[i].ledger_id]

LastEntryByDate(l, m) ==
    LET own == {i \in 1..Len(l) : l[i].member_id = m}
    IN  IF own = {} THEN 0
        ELSE CHOOSE i \in own : \A j \in own :
                 l[j].date < l[i].date \/ (l[j].date = l[i].date /\ j <= i)

\* Ledger.findOne({ member_id }).sort({ createdAt: -1 }): position of the
\* member's most recently created entry, 0 when the member has none
LastEntry(l, m) ==
    LET own == {i \in 1..Len(l) : l[i].member_id = m}
    IN  IF own = {} THEN 0 ELSE CHOOSE i \in own : \A j \in own : j <= i

LastBalance(l, m) == IF LastEntry(l, m) = 0 THEN 0 ELSE l[LastEntry(l, m)].balance

\* the references of the request bodies explored: complete requests with and
\* without a group, and requests in which one reference is missing or does
\* not resolve
LedgerRequests ==
    [branch_id : {"b1"}, member_id : MemberIds, group_id : {NoRef, "g1"},
     transaction_id : {1}]
    \cup [branch_id : {NoRef, "bX"}, member_id : {"m1"}, group_id : {NoRef},
          transaction_id : {1}]
    \cup [branch_id : {"b1"}, member_id : {NoRef, "mX"}, group_id : {NoRef},
          transaction_id : {1}]
    \cup [branch_id : {"b1"}, member_id : {"m1"}, group_id : {NoRef},
          transaction_id : {0, Len(txns) + 1}]
    \cup [branch_id : {"b1"}, member_id : {"m1"}, group_id : {"gX"},
          transaction_id : {1}]

RefsFoundIgnoreGroup(branch_id, member_id, transaction_id, group_id) ==
    /\ BranchFound(branch_id)
    /\ MemberFound(member_id)
    /\ TransactionFound(transaction_id)

\* the references of a ledger request resolve: branch, member and transaction,
\* and the group if one is given
RefsFound(branch_id, member_id, transaction_id, group_id) ==
    /\ BranchFound(branch_id)
    /\ MemberFound(member_id)
    /\ TransactionFound(transaction_id)
    /\ (group_id # NoRef => GroupFound(group_id))

\* POST /api/ledgers
createLedgerEntry ==
    /\ Len(ledger) < MaxLedger
    /\ \E req \in LedgerRequests, debit \in Debits, credit \in Credits :
          LET branch_id == req.branch_id
              member_id == req.member_id
              group_id == req.group_id
              transaction_id == req.transaction_id
          IN
          IF \/ branch_id = NoRef \/ member_id = NoRef \/ transaction_id = 0
             \/ ~RefsFound(branch_id, member_id, transaction_id, group_id)
          THEN /\ resp' = [op |-> "createLedgerEntry", ok |-> FALSE, arg |-> 0,
                           req |-> req]
               /\ UNCHANGED ledger
          ELSE LET newBalance == LastBalance(ledger, member_id)
                                   + OrZero(credit) - OrZero(debit)
               IN  /\ ledger' = Append(ledger,
                         [ledger_id |-> NextId(LedgerIdIndex(ledger)),
                          branch_id |-> branch_id, member_id |-> member_id,
                          group_id |-> group_id, transaction_id |-> transaction_id,
                          date |-> now,
                          debit |-> OrZero(debit), credit |-> OrZero(credit),
                          balance |-> newBalance])
                   /\ resp' = [op |-> "createLedgerEntry", ok |-> TRUE, arg |-> 0,
                               req |-> req]
    /\ UNCHANGED <<now, year, roles, payout, bname, procs, idVars, members, txns, instVars, grpVars, updates>>

\* the balance createLedgerEntry adds the request's amounts to, if the last
\* balance were read in the same step as the insert
BaseBalanceAtInsert(read, l, m) == LastBalance(l, m)
\* the balance createLedgerEntry adds the request's amounts to: lastBalance
\* as read before the insert, whatever the collection holds by then
BaseBalance(read, l, m) == read

\* POST /api/ledgers in request p, up to the await of Ledger.create: the
\* references resolve and the member's last balance is read
createLedgerEntryRead(p) ==
    /\ procs[p].pc = "idle"
    /\ Len(ledger) < MaxRace
    /\ \E member_id \in MemberIds, debit \in Debits, credit \in Credits :
          /\ RefsFound("b1", member_id, 1, NoRef)
          /\ procs' = [procs EXCEPT ![p] =
                         [pc |-> "read", at |-> Len(ledger), member_id |-> member_id,
                          debit |-> OrZero(debit), credit |-> OrZero(credit),
                          lastBalance |-> LastBalance(ledger, member_id)]]
    /\ UNCHANGED <<resp, ledger, now, year, roles, payout, bname, idVars, members, txns, instVars, grpVars,
                   updates>>

\* POST /api/ledgers in request p, from Ledger.create on: the entry is stored
\* with the balance computed from the value read earlier
createLedgerEntryInsert(p) ==
    /\ procs[p].pc = "read"
    /\ LET r == procs[p]
           newBalance == BaseBalance(r.lastBalance, ledger, r.member_id) + r.credit - r.debit
       IN  ledger' = Append(ledger,
                        [ledger_id |-> NextId(LedgerIdIndex(ledger)),
                         branch_id |-> "b1", member_id |-> r.member_id,
                         group_id |-> NoRef, transaction_id |-> 1,
                         date |-> now,
                         debit |-> r.debit, credit |-> r.credit,
                         balance |-> newBalance])
    /\ procs' = [procs EXCEPT ![p].pc = "done"]
    /\ resp' = [op |-> "createLedgerEntry", ok |-> TRUE, arg |-> 0]
    /\ UNCHANGED <<now, year, roles, payout, bname, idVars, members, txns, instVars, grpVars, updates>>

\* PUT /api/ledgers/:id  (ledger_id, branch_id, member_id, transaction_id and
\* balance are stripped from the body; the rest is written as given)
updateLedgerEntry ==
    /\ updates < MaxUpdates
    /\ \E i \in 1..(Len(ledger) + 1),
          body \in [field : {"debit"}, debit : {0, 1}]
                 \cup [field : {"credit"}, credit : {0, MaxAmount}]
                 \cup [field : {"date"}, date : 0..MaxTime] :
          IF i > Len(ledger)
          THEN /\ resp' = [op |-> "updateLedgerEntry", ok |-> FALSE, arg |-> 0]
               /\ UNCHANGED ledger
          ELSE /\ ledger' = [ledger EXCEPT ![i] =
                      [@ EXCEPT !.debit = IF body.field = "debit" THEN body.debit ELSE @,
                                !.credit = IF body.field = "credit" THEN body.credit ELSE @,
                                !.date = IF body.field = "date" THEN body.date ELSE @]]
               /\ resp' = [op |-> "updateLedgerEntry", ok |-> TRUE, arg |-> 0]
    /\ UNCHANGED <<now, year, roles, payout, bname, procs, idVars, members, txns, instVars, grpVars>>
    /\ updates' = updates + 1

\* the filter of getMemberLedger: the positions of the member's entries whose
\* date lies within the given limits (Undef: no limit)
LedgerFilter(l, m, startDate, endDate) ==
    {i \in 1..Len(l) : /\ l[i].member_id = m
                       /\ (startDate # Undef => l[i].date >= startDate[1])
                       /\ (endDate # Undef => l[i].date <= endDate[1])}

\* sort({ date: 1, createdAt: 1 }): the first and the last of a non-empty set
\* of positions
FirstByDate(l, own) ==
    CHOOSE i \in own : \A j \in own :
        l[i].date < l[j].date \/ (l[i].date = l[j].date /\ i <= j)

LastByDate(l, own) ==
    CHOOSE i \in own : \A j \in own :
        l[j].date < l[i].date \/ (l[j].date = l[i].date /\ j <= i)

\* GET /api/members/:member_id/ledger?startDate=&endDate=
getMemberLedger ==
    /\ \E m \in {"m1", "mX"}, startDate \in {Undef, <<1>>},
          endDate \in {Undef} \cup {<<d>> : d \in 0..MaxTime} :
          LET req == [member_id |-> m, startDate |-> startDate, endDate |-> endDate]
              ledgerEntries == LedgerFilter(ledger, m, startDate, endDate)
              firstEntry == ledger[FirstByDate(ledger, LedgerFilter(ledger, m, Undef, Undef))]
          IN  IF ~MemberFound(m)
              THEN resp' = [op |-> "getMemberLedger", ok |-> FALSE, arg |-> 0, req |-> req]
              ELSE resp' = [op |-> "getMemberLedger", ok |-> TRUE, arg |-> 0, req |-> req,
                            opening_balance |->
                                IF ledgerEntries = {} THEN 0
                                ELSE firstEntry.balance - firstEntry.credit + firstEntry.debit,
                            closing_balance |->
                                IF ledgerEntries = {} THEN 0
                                ELSE ledger[LastByDate(ledger, ledgerEntries)].balance,
                            count |-> Cardinality(ledgerEntries)]
    /\ UNCHANGED <<now, year, roles, payout, bname, procs, idVars, members, ledger, txns, instVars, grpVars,
                   updates>>

\* ---------------------------------------------------------------------------
\* Transactions
\* ---------------------------------------------------------------------------
TxnTypes == {"Deposit", "Withdrawal", "Installment", "Auction", "Commission"}
TxnStatuses == {"Pending", "Completed", "Failed", "Reversed"}
AmountMinCents == 1     \* min: 0.01, in hundredths

\* new Date().getFullYear().toString().slice(-2)
YearSuffix(y) == SubSeq(Digits(y), Len(Digits(y)) - 1, Len(Digits(y)))

\* the transaction_id hook: ids are 'TXN' + 2 year digits + counter; the stored
\* strings are kept without the constant 'TXN', so slice(0, 5) is the first two
\* digits and slice(5) the rest
NextTxnId(index, y) ==
    LET last == FindLastId(index)
        first == YearSuffix(y) \o PadStart(Digits(1), PadWidth)
    IN  IF last = NoId THEN first
        ELSE IF SubSeq(last, 1, 2) # YearSuffix(y) THEN first
        ELSE YearSuffix(y)
               \o PadStart(Digits(ParseInt(SubSeq(last, 3, Len(last))) + 1), PadWidth)

RECURSIVE TxnIdIndex(_)
\* the unique index on transaction_id of the stored transactions
TxnIdIndex(l) ==
    IF Len(l) = 0 THEN <<>>
    ELSE IndexInsert(TxnIdIndex(SubSeq(l, 1, Len(l) - 1)), l[Len(l)].transaction_id)

\* Transaction.create() of a valid document without an explicit id, on a
\* collection seen through its transaction_id index only
CreateTxnRecord ==
    /\ idCreated < MaxCreate
    /\ LET newId == NextTxnId(idIndex, year)
       IN  /\ idNew' = newId
           /\ IF HasKey(idIndex, newId)
              THEN /\ resp' = [op |-> "createTxnRecord", ok |-> FALSE, arg |-> 0]
                   /\ UNCHANGED <<idIndex, idCreated>>
              ELSE /\ resp' = [op |-> "createTxnRecord", ok |-> TRUE, arg |-> 0]
                   /\ idIndex' = IndexInsert(idIndex, newId)
                   /\ idCreated' = idCreated + 1
    /\ UNCHANGED <<idDeleted, now, year, roles, payout, bname, procs, members, ledger, txns, instVars, grpVars, updates>>

\* the clock passes into the next calendar year
NewYear ==
    /\ now < MaxTime
    /\ idCreated <= NewYearWindow
    /\ now' = now + 1
    /\ year' = year + 1
    /\ resp' = [op |-> "none", ok |-> TRUE, arg |-> 0]
    /\ UNCHANGED <<bname, payout, roles, procs, idVars, members, ledger, txns, instVars, grpVars, updates>>

TxnSchemaValidNoGroupRule(d) ==
    /\ d.branch_id # NoRef
    /\ (d.transaction_type \notin {"Commission", "Other"} => d.member_id # NoRef)
    /\ d.transaction_type \in TxnTypes
    /\ d.amount # Undef
    /\ d.amount[1] * 100 >= AmountMinCents
    /\ (d.transaction_type \in {"Withdrawal", "Deposit"} => d.amount[1] > 0)
    /\ d.status \in TxnStatuses

TxnSchemaValidNoMin(d) ==
    /\ d.branch_id # NoRef
    /\ (d.transaction_type \notin {"Commission", "Other"} => d.member_id # NoRef)
    /\ (d.transaction_type \in {"Installment", "Auction"} => d.group_id # NoRef)
    /\ d.transaction_type \in TxnTypes
    /\ d.amount # Undef
    /\ (d.transaction_type \in {"Withdrawal", "Deposit"} => d.amount[1] > 0)
    /\ d.status \in TxnStatuses

\* the schema validators of a Transaction document (payment_mode is left to
\* its default 'Cash', for which no reference_id is required)
TxnSchemaValid(d) ==
    /\ d.branch_id # NoRef
    /\ (d.transaction_type \notin {"Commission", "Other"} => d.member_id # NoRef)
    /\ (d.transaction_type \in {"Installment", "Auction"} => d.group_id # NoRef)
    /\ d.transaction_type \in TxnTypes
    /\ d.amount # Undef
    /\ d.amount[1] * 100 >= AmountMinCents
    /\ (d.transaction_type \in {"Withdrawal", "Deposit"} => d.amount[1] > 0)
    /\ d.status \in TxnStatuses

\* validateReferences: every reference that is given must resolve
TxnReferencesFound(branch_id, member_id, group_id) ==
    /\ (branch_id # NoRef => BranchFound(branch_id))
    /\ (member_id # NoRef => MemberFound(member_id))
    /\ (group_id # NoRef => GroupFound(group_id))

\* POST /api/transactions
createTransaction ==
    /\ Len(txns) < MaxTxns
    /\ \E branch_id \in {"b1", NoRef},
          member_id \in {NoRef, "m1", "m2"},
          group_id \in {NoRef, "g1"},
          transaction_type \in TxnTypes,
          amount \in {Undef, <<-1>>, <<0>>, <<MaxAmount>>},
          status \in {NoRef, "Reversed"} :
          LET doc == [transaction_id |-> NextTxnId(TxnIdIndex(txns), year),
                      branch_id |-> branch_id, member_id |-> member_id,
                      group_id |-> group_id, transaction_type |-> transaction_type,
                      amount |-> amount,
                      status |-> IF status = NoRef THEN "Completed" ELSE status,
                      description |-> "", related_transaction |-> 0]
              req == [transaction_type |-> transaction_type,
                      member_id |-> member_id, group_id |-> group_id]
          IN  IF /\ TxnReferencesFound(branch_id, member_id, group_id)
                 /\ ~(transaction_type = "Installment" /\ group_id = NoRef)
                 /\ ~(transaction_type \in {"Deposit", "Withdrawal"} /\ member_id = NoRef)
                 /\ TxnSchemaValid(doc)
              THEN /\ txns' = Append(txns, [doc EXCEPT !.amount = amount[1]])
                   /\ resp' = [op |-> "createTransaction", ok |-> TRUE, arg |-> 0,
                               req |-> req]
              ELSE /\ resp' = [op |-> "createTransaction", ok |-> FALSE, arg |-> 0,
                               req |-> req]
                   /\ UNCHANGED txns
    /\ UNCHANGED <<now, year, roles, payout, bname, procs, idVars, members, ledger, instVars, grpVars, updates>>

\* PUT /api/transactions/:id  (transaction_id, branch_id, member_id, group_id
\* and recorded_by are stripped; update validators run on the given fields)
updateTransaction ==
    /\ updates < MaxUpdates
    /\ \E i \in 1..(Len(txns) + 1),
          body \in [amount : {Undef, <<-1>>, <<0>>, <<1>>},
                    status : {NoRef} \cup TxnStatuses,
                    related_transaction : 0..MaxTxns] :
          /\ (body.amount # Undef => body.status = NoRef /\ body.related_transaction = 0)
          /\ IF \/ (body.status = "Reversed" /\ body.related_transaction = 0)
                \/ (body.amount # Undef /\ body.amount[1] * 100 < AmountMinCents)
                \/ i > Len(txns)
             THEN /\ resp' = [op |-> "updateTransaction", ok |-> FALSE, arg |-> 0]
                  /\ UNCHANGED txns
             ELSE /\ txns' = [txns EXCEPT ![i] =
                         [@ EXCEPT !.amount = IF body.amount = Undef THEN @
                                              ELSE body.amount[1],
                                   !.status = IF body.status = NoRef THEN @
                                              ELSE body.status,
                                   !.related_transaction =
                                       IF body.related_transaction = 0 THEN @
                                       ELSE body.related_transaction]]
                  /\ resp' = [op |-> "updateTransaction", ok |-> TRUE, arg |-> 0]
    /\ UNCHANGED <<now, year, roles, payout, bname, procs, idVars, members, ledger, instVars, grpVars>>
    /\ updates' = updates + 1

ReverseErrorNoStatusCheck(txs, i) ==
    IF i > Len(txs) THEN "Transaction not found" ELSE ""

\* the checks reverseTransaction makes before it builds the reversal: the
\* message of the error response, "" when both pass
ReverseError(txs, i) ==
    IF i > Len(txs) THEN "Transaction not found"
    ELSE IF txs[i].status = "Reversed" THEN "Transaction already reversed"
    ELSE ""

\* POST /api/transactions/:id/reverse
reverseTransaction ==
    /\ Len(txns) <= MaxTxns
    /\ \E i \in 1..(Len(txns) + 1) :
          IF ReverseError(txns, i) # ""
          THEN /\ resp' = [op |-> "reverseTransaction", ok |-> FALSE, arg |-> i,
                           err |-> ReverseError(txns, i)]
               /\ UNCHANGED txns
          ELSE LET original == txns[i]
                   reversal == [original EXCEPT !.amount = <<-original.amount>>,
                                                !.transaction_id =
                                                    NextTxnId(TxnIdIndex(txns), year),
                                                !.status = "Completed",
                                                !.description = "Reversal",
                                                !.related_transaction = i]
               IN  IF TxnSchemaValid(reversal)
                   THEN /\ txns' = Append(
                              [txns EXCEPT ![i] = [@ EXCEPT
                                   !.status = "Reversed",
                                   !.related_transaction = Len(txns) + 1]],
                              [reversal EXCEPT !.amount = -original.amount])
                        /\ resp' = [op |-> "reverseTransaction", ok |-> TRUE, arg |-> i,
                                    err |-> ""]
                   ELSE /\ resp' = [op |-> "reverseTransaction", ok |-> FALSE, arg |-> i,
                                    err |-> "validation failed"]
                        /\ UNCHANGED txns
    /\ UNCHANGED <<now, year, roles, payout, bname, procs, idVars, members, ledger, instVars, grpVars, updates>>

\* ---------------------------------------------------------------------------
\* Members
\* ---------------------------------------------------------------------------
\* DELETE /api/members/:id: refused while the member is in an Active group
deleteMember ==
    /\ \E m \in MemberIds :
          IF /\ group.exists /\ group.status = "Active"
             /\ \E k \in 1..Len(group.members) : group.members[k].member_id = m
          THEN /\ resp' = [op |-> "deleteMember", ok |-> FALSE, arg |-> 0]
               /\ UNCHANGED members
          ELSE IF m \notin members
          THEN /\ resp' = [op |-> "deleteMember", ok |-> FALSE, arg |-> 0]
               /\ UNCHANGED members
          ELSE /\ members' = members \ {m}
               /\ resp' = [op |-> "deleteMember", ok |-> TRUE, arg |-> 0]
    /\ UNCHANGED <<now, year, roles, payout, bname, procs, idVars, ledger, txns, instVars, grpVars, updates>>

\* ---------------------------------------------------------------------------
\* Receipts: the global receipt_id and the per-branch receipt_no
\* ---------------------------------------------------------------------------
ReceiptModes == {"Cash", "Cheque", "Online", "Bank Transfer"}

\* the characters of a digit string
DigitChars(ds) == [i \in 1..Len(ds) |-> ds[i] + 48]

\* s.toUpperCase(), on character codes
ToUpperCase(s) == [i \in 1..Len(s) |-> IF s[i] \in 97..122 THEN s[i] - 32 ELSE s[i]]

\* branch.bname.substring(0, 3).toUpperCase()
BranchCode(name) == ToUpperCase(SubSeq(name, 1, IF Len(name) < 3 THEN Len(name) ELSE 3))

RECURSIVE Split(_)
\* s.split('-')
Split(s) ==
    LET hy == {i \in 1..Len(s) : s[i] = 45}
    IN  IF hy = {} THEN <<s>>
        ELSE LET k == CHOOSE i \in hy : \A j \in hy : i <= j
             IN  <<SubSeq(s, 1, k - 1)>> \o Split(SubSeq(s, k + 1, Len(s)))

\* parseInt(receipt_no.split('-')[2], 10), for a third part made of digits
LastSeq(receipt_no) == ParseInt([i \in 1..Len(Split(receipt_no)[3]) |->
                                    Split(receipt_no)[3][i] - 48])

RECURSIVE ReceiptIdIndex(_)
\* the unique index on receipt_id of the stored receipts
ReceiptIdIndex(l) ==
    IF Len(l) = 0 THEN <<>>
    ELSE IndexInsert(ReceiptIdIndex(SubSeq(l, 1, Len(l) - 1)), l[Len(l)].receipt_id)

\* findOne({ branch_id }, {}, { sort: { receipt_no: -1 } }): the receipt_no
\* that is last in string order among the branch's receipts, NoId if none
LastReceiptNo(l, b) ==
    LET nos == {l[i].receipt_no : i \in {j \in 1..Len(l) : l[j].branch_id = b}}
    IN  IF nos = {} THEN NoId
        ELSE CHOOSE n \in nos : \A m \in nos : m = n \/ StrLess(m, n)

\* the sequence number the hook gives the next receipt of branch b
Sequence(l, b, y) ==
    IF LastReceiptNo(l, b) = NoId THEN 1 ELSE LastSeq(LastReceiptNo(l, b)) + 1

\* ReceiptSchema.pre('save') on a new receipt: receipt_id and receipt_no
ReceiptPreSave(l, doc, y, names) ==
    [doc EXCEPT
       !.receipt_id = NextId(ReceiptIdIndex(l)),
       !.receipt_no = BranchCode(names[doc.branch_id]) \o <<45>>
                        \o DigitChars(YearSuffix(y)) \o <<45>>
                        \o DigitChars(PadStart(Digits(Sequence(l, doc.branch_id, y)), 5))]

\* POST /api/receipts (no cheque details and no group or transaction reference
\* in the body)
createReceipt ==
    /\ Len(receipts) < MaxReceipts
    /\ \E branch_id \in Branches \cup {"bX"}, member_id \in {"m1", "mX"},
          receipt_amount \in {Undef, <<1>>},
          payment_mode \in {NoRef, "Online", "Cheque"} :
          LET doc == [receipt_id |-> NoId, receipt_no |-> NoId,
                      branch_id |-> branch_id, member_id |-> member_id,
                      group_id |-> NoRef, receipt_amount |-> OrZero(receipt_amount),
                      payment_mode |-> IF payment_mode = NoRef THEN "Cash"
                                       ELSE payment_mode]
              new == ReceiptPreSave(receipts, doc, year, bname)
          IN  IF /\ BranchFound(branch_id) /\ MemberFound(member_id)
                 /\ payment_mode # "Cheque"       \* no cheque details given
                 /\ payment_mode \notin {"Online", "Bank Transfer"}
                 /\ receipt_amount # Undef
                 /\ doc.payment_mode \in ReceiptModes
                 /\ ~HasKey(ReceiptIdIndex(receipts), new.receipt_id)
              THEN /\ receipts' = Append(receipts, new)
                   /\ resp' = [op |-> "createReceipt", ok |-> TRUE, arg |-> 0]
              ELSE /\ resp' = [op |-> "createReceipt", ok |-> FALSE, arg |-> 0]
                   /\ UNCHANGED receipts
    /\ UNCHANGED <<now, year, roles, payout, bname, procs, idVars, members, ledger, txns, inst, paidLog,
                   grpVars, updates>>

\* PUT /api/branches/:id with a name in the body
updateBranch ==
    /\ \E b \in Branches \cup {"bX"}, name \in BranchNames :
          IF \E o \in Branches : o # b /\ bname[o] = name
          THEN /\ resp' = [op |-> "updateBranch", ok |-> FALSE, arg |-> 0]
               /\ UNCHANGED bname
          ELSE IF ~BranchFound(b)
          THEN /\ resp' = [op |-> "updateBranch", ok |-> FALSE, arg |-> 0]
               /\ UNCHANGED bname
          ELSE /\ bname' = [bname EXCEPT ![b] = name]
               /\ resp' = [op |-> "updateBranch", ok |-> TRUE, arg |-> 0]
    /\ UNCHANGED <<now, year, roles, payout, procs, idVars, members, ledger, txns, instVars, grpVars, updates>>

\* ---------------------------------------------------------------------------
\* Installments
\* ---------------------------------------------------------------------------
PaymentModes == {"Cash", "Cheque", "Online", "Bank Transfer"}
LateFeeRatePct == 2     \* scheme?.late_fee_rate || 0.02, in percent

NoInst == [exists |-> FALSE, member_id |-> NoRef, group_id |-> NoRef, amount |-> 0, paid_amount |-> 0,
           pending_amount |-> 0, status |-> "Pending", due_date |-> 0,
           late_fee100 |-> 0, payment_mode |-> "Cash"]

InstPreSaveNoLate(d, t) ==
    LET pending == d.amount - d.paid_amount
    IN  [d EXCEPT !.pending_amount = pending,
                  !.status = IF d.paid_amount > 0 /\ pending <= 0 THEN "Paid"
                             ELSE IF d.paid_amount > 0 /\ d.paid_amount < d.amount
                                  THEN "Partial"
                             ELSE @]

InstPreSaveLateInclusive(d, t) ==
    LET pending == d.amount - d.paid_amount
        s1 == IF d.paid_amount > 0 /\ pending <= 0 THEN "Paid"
              ELSE IF d.paid_amount > 0 /\ d.paid_amount < d.amount THEN "Partial"
              ELSE d.status
    IN  [d EXCEPT !.pending_amount = pending,
                  !.status = IF d.due_date <= t /\ pending > 0 THEN "Late" ELSE s1]

\* InstallmentSchema.pre('save') at time t: pending amount and status
InstPreSave(d, t) ==
    LET pending == d.amount - d.paid_amount
        s1 == IF d.paid_amount > 0 /\ pending <= 0 THEN "Paid"
              ELSE IF d.paid_amount > 0 /\ d.paid_amount < d.amount THEN "Partial"
              ELSE d.status
    IN  [d EXCEPT !.pending_amount = pending,
                  !.status = IF d.due_date < t /\ pending > 0 THEN "Late" ELSE s1]

InGroup(m) == group.exists /\ \E k \in 1..Len(group.members) : group.members[k].member_id = m

\* POST /api/installments
createInstallment ==
    /\ ~inst.exists
    /\ \E member_id \in MemberIds,
          amount \in {Undef} \cup {<<v>> : v \in 0..MaxAmount},
          due_date \in 0..MaxTime,
          paid_amount \in {Undef, <<1>>},
          status \in {NoRef, "Paid"} :
          IF MemberFound(member_id) /\ InGroup(member_id) /\ amount # Undef
          THEN /\ inst' = InstPreSave(
                      [exists |-> TRUE, member_id |-> member_id, group_id |-> "g1",
                       amount |-> amount[1],
                       paid_amount |-> OrZero(paid_amount),
                       pending_amount |-> amount[1] - OrZero(paid_amount),
                       status |-> IF status = NoRef THEN "Pending" ELSE status,
                       due_date |-> due_date, late_fee100 |-> 0,
                       payment_mode |-> "Cash"], now)
               /\ paidLog' = [paidLog EXCEPT !.init = OrZero(paid_amount)]
               /\ resp' = [op |-> "createInstallment", ok |-> TRUE, arg |-> 0]
          ELSE /\ resp' = [op |-> "createInstallment", ok |-> FALSE, arg |-> 0]
               /\ UNCHANGED <<inst, paidLog>>
    /\ UNCHANGED <<now, year, roles, payout, bname, procs, idVars, members, ledger, txns, receipts, grpVars, updates>>

\* the status recordPayment assigns before saving (d.paid_amount is already
\* the new total, d.pending_amount still the stored one)
PayStatus(d, paid_amount) ==
    IF d.pending_amount <= paid_amount THEN "Paid"
    ELSE IF d.paid_amount > 0 THEN "Partial" ELSE "Pending"

PaidTotalReplace(old, paid_amount) == paid_amount

\* (installment.paid_amount || 0) + paid_amount
PaidTotal(old, paid_amount) == old + paid_amount

PaymentReceiptOfTotal(d, paid_amount, payment_mode) ==
    [receipt_id |-> NoId, receipt_no |-> NoId,
     branch_id |-> MemberBranch(d.member_id), member_id |-> d.member_id,
     group_id |-> d.group_id, receipt_amount |-> d.paid_amount,
     payment_mode |-> payment_mode]

\* the receipt recordPayment creates for the saved installment d
PaymentReceipt(d, paid_amount, payment_mode) ==
    [receipt_id |-> NoId, receipt_no |-> NoId,
     branch_id |-> MemberBranch(d.member_id), member_id |-> d.member_id,
     group_id |-> d.group_id, receipt_amount |-> paid_amount,
     payment_mode |-> payment_mode]

AlreadyPaidStrict(d) == d.status = "Paid" /\ d.pending_amount < 0

\* the installment is already fully paid
AlreadyPaid(d) == d.status = "Paid" /\ d.pending_amount <= 0

\* a catch block that would write the installment back as it was loaded
AfterReceiptErrorRestore(saved, loaded) == loaded
\* the stored installment once Receipt.create has thrown: the catch block only
\* answers 400, the document saved before stays
AfterReceiptError(saved, loaded) == saved

\* POST /api/installments/:id/pay
recordPayment ==
    /\ paidLog.saved < MaxPayments
    /\ \E paid_amount \in {Undef} \cup {<<v>> : v \in (-1)..MaxAmount},
          payment_mode \in {"Online", "Card"} :
          IF \/ ~inst.exists
             \/ AlreadyPaid(inst)
             \/ paid_amount = Undef              \* NaN fails the Number cast
             \/ payment_mode \notin PaymentModes \* enum validation on save
          THEN /\ resp' = [op |-> "recordPayment", ok |-> FALSE, arg |-> 0,
                           paid |-> paid_amount]
               /\ UNCHANGED <<inst, paidLog, receipts>>
          ELSE LET lateFee100 == IF now > inst.due_date
                                 THEN inst.amount * LateFeeRatePct * (now - inst.due_date)
                                 ELSE 0
                   d1 == [inst EXCEPT !.paid_amount = PaidTotal(@, paid_amount[1]),
                                      !.late_fee100 = lateFee100,
                                      !.payment_mode = payment_mode]
                   d2 == [d1 EXCEPT !.status = PayStatus(d1, paid_amount[1])]
                   new == ReceiptPreSave(receipts,
                              PaymentReceipt(InstPreSave(d2, now), paid_amount[1],
                                             payment_mode), year, bname)
               IN  /\ IF /\ MemberFound(inst.member_id)
                         /\ ~HasKey(ReceiptIdIndex(receipts), new.receipt_id)
                      THEN /\ inst' = InstPreSave(d2, now)
                           /\ receipts' = Append(receipts, new)
                           /\ paidLog' = [paidLog EXCEPT !.saved = @ + 1,
                                                         !.okSum = @ + paid_amount[1]]
                           /\ resp' = [op |-> "recordPayment", ok |-> TRUE, arg |-> 0,
                                       paid |-> paid_amount]
                      ELSE /\ inst' = AfterReceiptError(InstPreSave(d2, now), inst)
                           /\ paidLog' = [paidLog EXCEPT !.saved = @ + 1,
                                                         !.failed = @ + 1]
                           /\ resp' = [op |-> "recordPayment", ok |-> FALSE, arg |-> 0,
                                       paid |-> paid_amount]
                           /\ UNCHANGED receipts
    /\ UNCHANGED <<now, year, roles, payout, bname, procs, idVars, members, ledger, txns, grpVars, updates>>

\* the document recordPayment changes and saves, if the installment were
\* loaded in the same step as the save
SavedDocReload(loaded, stored) == stored
\* the document recordPayment changes and saves: the one findOne returned,
\* whatever the collection holds by the time of the save
SavedDoc(loaded, stored) == loaded

\* POST /api/installments/:id/pay in request p, up to the await of
\* installment.save(): the installment is loaded and checked
recordPaymentLoad(p) ==
    /\ procs[p].pc = "idle"
    /\ paidLog.saved < MaxRace
    /\ \E paid_amount \in 1..MaxAmount, payment_mode \in {"Online"} :
          IF ~inst.exists \/ AlreadyPaid(inst)
          THEN /\ resp' = [op |-> "recordPayment", ok |-> FALSE, arg |-> 0,
                           paid |-> <<paid_amount>>]
               /\ UNCHANGED procs
          ELSE /\ procs' = [procs EXCEPT ![p] =
                              [pc |-> "read", at |-> paidLog.saved, doc |-> inst,
                               paid_amount |-> paid_amount,
                               payment_mode |-> payment_mode]]
               /\ UNCHANGED resp
    /\ UNCHANGED <<now, year, roles, payout, bname, idVars, members, ledger, txns, instVars, grpVars, updates>>

\* POST /api/installments/:id/pay in request p, from installment.save() on:
\* the loaded document with its changes is written, then the receipt is created
recordPaymentSave(p) ==
    /\ procs[p].pc = "read"
    /\ LET r == procs[p]
           doc == SavedDoc(r.doc, inst)
           lateFee100 == IF now > doc.due_date
                         THEN doc.amount * LateFeeRatePct * (now - doc.due_date)
                         ELSE 0
           d1 == [doc EXCEPT !.paid_amount = PaidTotal(@, r.paid_amount),
                             !.late_fee100 = lateFee100,
                             !.payment_mode = r.payment_mode]
           d2 == [d1 EXCEPT !.status = PayStatus(d1, r.paid_amount)]
           new == ReceiptPreSave(receipts,
                      PaymentReceipt(InstPreSave(d2, now), r.paid_amount,
                                     r.payment_mode), year, bname)
       IN  /\ inst' = InstPreSave(d2, now)
           /\ IF /\ MemberFound(doc.member_id)
                 /\ ~HasKey(ReceiptIdIndex(receipts), new.receipt_id)
              THEN /\ receipts' = Append(receipts, new)
                   /\ paidLog' = [paidLog EXCEPT !.saved = @ + 1,
                                                 !.okSum = @ + r.paid_amount]
                   /\ resp' = [op |-> "recordPayment", ok |-> TRUE, arg |-> 0,
                               paid |-> <<r.paid_amount>>]
                   /\ procs' = [procs EXCEPT ![p].pc = "done"]
              ELSE /\ paidLog' = [paidLog EXCEPT !.saved = @ + 1,
                                                 !.failed = @ + 1]
                   /\ resp' = [op |-> "recordPayment", ok |-> FALSE, arg |-> 0,
                               paid |-> <<r.paid_amount>>]
                   /\ procs' = [procs EXCEPT ![p].pc = "failed"]
                   /\ UNCHANGED receipts
    /\ UNCHANGED <<now, year, roles, payout, bname, idVars, members, ledger, txns, grpVars, updates>>

\* PUT /api/installments/:id  (installment_id, group_id, member_id, scheme_id,
\* paid_amount, paid_date and status are stripped; findOneAndUpdate writes the
\* remaining fields as given and runs no save hook)
updateInstallment ==
    /\ updates < MaxUpdates
    /\ \E amount \in OptAmounts, pending_amount \in OptAmounts,
          due_date \in {Undef} \cup {<<d>> : d \in 0..MaxTime} :
          \* bodies that carry at most one of the three fields
          /\ \/ (amount = Undef /\ pending_amount = Undef)
             \/ (amount = Undef /\ due_date = Undef)
             \/ (pending_amount = Undef /\ due_date = Undef)
          /\ IF ~inst.exists
             THEN /\ resp' = [op |-> "updateInstallment", ok |-> FALSE, arg |-> 0]
                  /\ UNCHANGED inst
             ELSE /\ inst' = [inst EXCEPT
                         !.amount = IF amount = Undef THEN @ ELSE amount[1],
                         !.pending_amount = IF pending_amount = Undef THEN @
                                            ELSE pending_amount[1],
                         !.due_date = IF due_date = Undef THEN @ ELSE due_date[1]]
                  /\ resp' = [op |-> "updateInstallment", ok |-> TRUE, arg |-> 0]
    /\ UNCHANGED <<now, year, roles, payout, bname, procs, idVars, members, ledger, txns, paidLog, receipts, grpVars>>
    /\ updates' = updates + 1

\* ---------------------------------------------------------------------------
\* Groups and schemes
\* ---------------------------------------------------------------------------
GroupStatuses == {"Forming", "Active", "Completed"}
PayoutMonthMin == 1     \* members.payout_month: min: 1

NoGroup == [exists |-> FALSE, status |-> "Forming", members |-> <<>>, current_month |-> 1]

\* member lists a request body can carry (payout_month 0 fails min: 1)
Entries == [member_id : MemberIds, payout_month : 1..2]
MemberLists == {<<>>, <<[member_id |-> "m1", payout_month |-> 0]>>}
                   \cup {<<e>> : e \in Entries}
                   \cup {<<e, f>> : e \in Entries, f \in Entries}

\* the schema validators of the members subdocuments
MembersSchemaValid(ms) == \A k \in 1..Len(ms) : ms[k].payout_month >= PayoutMonthMin

\* groupSchema.pre('save'): no duplicate payout months, none beyond the
\* scheme's duration
GroupPreSave(ms, sch) ==
    /\ Cardinality({ms[k].payout_month : k \in 1..Len(ms)}) = Len(ms)
    /\ \A k \in 1..Len(ms) : ms[k].payout_month <= sch.duration_months

\* PUT /api/schemes/:id: the body is written as given
updateScheme ==
    /\ \E duration_months \in 1..MaxDuration, min_members \in 1..MaxMin :
          scheme' = [duration_months |-> duration_months, min_members |-> min_members]
    /\ resp' = [op |-> "updateScheme", ok |-> TRUE, arg |-> 0]
    /\ UNCHANGED <<now, year, roles, payout, bname, procs, idVars, members, ledger, txns, instVars, group, updates>>

\* POST /api/groups
createGroup ==
    /\ ~group.exists
    /\ \E ms \in MemberLists :
          IF /\ \A k \in 1..Len(ms) : MemberFound(ms[k].member_id)
             /\ Cardinality({ms[k].member_id : k \in 1..Len(ms)}) = Len(ms)
             /\ MembersSchemaValid(ms)
             /\ GroupPreSave(ms, scheme)
          THEN /\ group' = [exists |-> TRUE, status |-> "Forming", members |-> ms,
                            current_month |-> 1]
               /\ resp' = [op |-> "createGroup", ok |-> TRUE, arg |-> 0]
          ELSE /\ resp' = [op |-> "createGroup", ok |-> FALSE, arg |-> 0]
               /\ UNCHANGED group
    /\ UNCHANGED <<now, year, roles, payout, bname, procs, idVars, members, ledger, txns, instVars, scheme, updates>>

\* PUT /api/groups/:id: findOneAndUpdate writes the body as given, with the
\* schema validators but without the save hook
updateGroup ==
    /\ \E body \in [field : {"members"}, members : MemberLists]
                 \cup [field : {"status"}, status : GroupStatuses]
                 \cup [field : {"current_month"}, current_month : 1..MaxDuration] :
          IF ~group.exists
             \/ (body.field = "members" /\ ~MembersSchemaValid(body.members))
          THEN /\ resp' = [op |-> "updateGroup", ok |-> FALSE, arg |-> 0]
               /\ UNCHANGED group
          ELSE /\ group' = [group EXCEPT
                      !.members = IF body.field = "members" THEN body.members ELSE @,
                      !.status = IF body.field = "status" THEN body.status ELSE @,
                      !.current_month = IF body.field = "current_month"
                                        THEN body.current_month ELSE @]
               /\ resp' = [op |-> "updateGroup", ok |-> TRUE, arg |-> 0]
    /\ UNCHANGED <<now, year, roles, payout, bname, procs, idVars, members, ledger, txns, instVars, scheme, updates>>

StatusAfterAddStrict(status, count, min_members) ==
    IF count > min_members /\ status = "Forming" THEN "Active" ELSE status

\* addGroupMember: Forming becomes Active on reaching the scheme's minimum
StatusAfterAdd(status, count, min_members) ==
    IF count >= min_members /\ status = "Forming" THEN "Active" ELSE status

\* removeGroupMember: Active falls back to Forming below the scheme's minimum
StatusAfterRemove(status, count, min_members) ==
    IF count < min_members /\ status = "Active" THEN "Forming" ELSE status

\* POST /api/groups/:id/members
addGroupMember ==
    /\ \E member_id \in MemberIds, payout_month \in 0..(MaxDuration + 1) :
          IF \/ ~MemberFound(member_id)
             \/ ~group.exists
             \/ \E k \in 1..Len(group.members) : group.members[k].member_id = member_id
             \/ \E k \in 1..Len(group.members) : group.members[k].payout_month = payout_month
          THEN /\ resp' = [op |-> "addGroupMember", ok |-> FALSE, arg |-> 0]
               /\ UNCHANGED group
          ELSE LET ms == Append(group.members,
                                [member_id |-> member_id, payout_month |-> payout_month])
                   st == StatusAfterAdd(group.status, Len(ms), scheme.min_members)
               IN  IF MembersSchemaValid(ms) /\ GroupPreSave(ms, scheme)
                   THEN /\ group' = [group EXCEPT !.members = ms, !.status = st]
                        /\ resp' = [op |-> "addGroupMember", ok |-> TRUE, arg |-> 0]
                   ELSE /\ resp' = [op |-> "addGroupMember", ok |-> FALSE, arg |-> 0]
                        /\ UNCHANGED group
    /\ UNCHANGED <<now, year, roles, payout, bname, procs, idVars, members, ledger, txns, instVars, scheme, updates>>

\* members.findIndex(m => m.member_id.equals(id)): first position, 0 for -1
FindMemberIndex(ms, m) ==
    LET hits == {k \in 1..Len(ms) : ms[k].member_id = m}
    IN  IF hits = {} THEN 0 ELSE CHOOSE k \in hits : \A j \in hits : k <= j

\* DELETE /api/groups/:id/members/:memberId
removeGroupMember ==
    /\ \E member_id \in MemberIds :
          LET memberIndex == FindMemberIndex(group.members, member_id)
          IN  IF ~group.exists \/ memberIndex = 0
              THEN /\ resp' = [op |-> "removeGroupMember", ok |-> FALSE, arg |-> 0]
                   /\ UNCHANGED group
              ELSE LET ms == SubSeq(group.members, 1, memberIndex - 1)
                             \o SubSeq(group.members, memberIndex + 1, Len(group.members))
                       st == StatusAfterRemove(group.status, Len(ms), scheme.min_members)
                   IN  IF MembersSchemaValid(ms) /\ GroupPreSave(ms, scheme)
                       THEN /\ group' = [group EXCEPT !.members = ms, !.status = st]
                            /\ resp' = [op |-> "removeGroupMember", ok |-> TRUE, arg |-> 0]
                       ELSE /\ resp' = [op |-> "removeGroupMember", ok |-> FALSE, arg |-> 0]
                            /\ UNCHANGED group
    /\ UNCHANGED <<now, year, roles, payout, bname, procs, idVars, members, ledger, txns, instVars, scheme, updates>>

\* POST /api/groups/:id/advance
advanceGroupMonth ==
    /\ IF ~group.exists \/ group.status # "Active"
       THEN /\ resp' = [op |-> "advanceGroupMonth", ok |-> FALSE, arg |-> 0]
            /\ UNCHANGED group
       ELSE LET g == IF group.current_month >= scheme.duration_months
                     THEN [group EXCEPT !.status = "Completed"]
                     ELSE [group EXCEPT !.current_month = @ + 1]
            IN  IF MembersSchemaValid(g.members) /\ GroupPreSave(g.members, scheme)
                THEN /\ group' = g
                     /\ resp' = [op |-> "advanceGroupMonth", ok |-> TRUE, arg |-> 0]
                ELSE /\ resp' = [op |-> "advanceGroupMonth", ok |-> FALSE, arg |-> 0]
                     /\ UNCHANGED group
    /\ UNCHANGED <<now, year, roles, payout, bname, procs, idVars, members, ledger, txns, instVars, scheme, updates>>

\* ---------------------------------------------------------------------------
\* Payouts
\* ---------------------------------------------------------------------------
PayoutStatuses == {"Pending", "Paid", "Skipped"}

NoPayout == [exists |-> FALSE, member_id |-> NoRef, payout_amount |-> 0, status |-> "Pending",
             payment_date |-> Undef, transaction_id |-> 0]

\* the :id of a payout request: the payout under observation or an unknown one
PayoutIds == {"y1", "yX"}

\* POST /api/payouts (the body's status is overwritten by 'Pending'; a
\* transaction_id in the body is stored as given)
createPayout ==
    /\ ~payout.exists
    /\ \E group_id \in {"g1", "gX"}, member_id \in MemberIds,
          payout_amount \in {Undef, <<1>>},
          status \in {NoRef, "Paid"},
          transaction_id \in {0, Len(txns) + 1} :
          IF /\ GroupFound(group_id) /\ MemberFound(member_id) /\ InGroup(member_id)
             /\ payout_amount # Undef
          THEN /\ payout' = [exists |-> TRUE, member_id |-> member_id,
                             payout_amount |-> payout_amount[1], status |-> "Pending",
                             payment_date |-> Undef, transaction_id |-> transaction_id]
               /\ resp' = [op |-> "createPayout", ok |-> TRUE, arg |-> 0]
          ELSE /\ resp' = [op |-> "createPayout", ok |-> FALSE, arg |-> 0]
               /\ UNCHANGED payout
    /\ UNCHANGED <<now, year, roles, bname, procs, idVars, members, ledger, txns, instVars, grpVars,
                   updates>>

\* a filter that would match the payout whatever its status
PayoutFilterAnyStatus(d, id) == d.exists /\ id = "y1"
\* the filter of findOneAndUpdate: the payout with this id, if it is Pending
PayoutFilter(d, id) == d.exists /\ id = "y1" /\ d.status = "Pending"

\* an update document without the transaction_id
ProcessUpdateNoLink(d, t, transaction_id) ==
    [d EXCEPT !.status = "Paid", !.payment_date = <<t>>]
\* the update document of processPayout, applied at time t
ProcessUpdate(d, t, transaction_id) ==
    [d EXCEPT !.status = "Paid", !.payment_date = <<t>>, !.transaction_id = transaction_id]

\* the update document of skipPayout, applied at time t
SkipUpdate(d, t) == [d EXCEPT !.status = "Skipped", !.payment_date = <<t>>]

\* whether the payout is still Pending (or not created) when a request starts
PayoutEpoch == IF payout.status = "Pending" THEN 0 ELSE 1

\* POST /api/payouts/:id/process in request p, up to the await of
\* findOneAndUpdate: the transaction of the body must exist
processPayoutCheck(p) ==
    /\ procs[p].pc = "idle"
    /\ \E id \in PayoutIds, transaction_id \in 0..(Len(txns) + 1) :
          LET r == [pc |-> "read", op |-> "processPayout", at |-> PayoutEpoch, id |-> id,
                    transaction_id |-> transaction_id]
          IN  IF TransactionFound(transaction_id)
              THEN /\ procs' = [procs EXCEPT ![p] = r]
                   /\ UNCHANGED resp
              ELSE /\ procs' = [procs EXCEPT ![p] = [r EXCEPT !.pc = "failed"]]
                   /\ resp' = [op |-> "processPayout", ok |-> FALSE, arg |-> 0]
    /\ UNCHANGED <<now, year, roles, payout, bname, idVars, members, ledger, txns, instVars, grpVars,
                   updates>>

\* POST /api/payouts/:id/process in request p, from findOneAndUpdate on: one
\* atomic find-and-update of the Pending payout
processPayoutUpdate(p) ==
    /\ procs[p].pc = "read"
    /\ procs[p].op = "processPayout"
    /\ IF PayoutFilter(payout, procs[p].id)
       THEN /\ payout' = ProcessUpdate(payout, now, procs[p].transaction_id)
            /\ procs' = [procs EXCEPT ![p].pc = "done"]
            /\ resp' = [op |-> "processPayout", ok |-> TRUE, arg |-> 0]
       ELSE /\ procs' = [procs EXCEPT ![p].pc = "failed"]
            /\ resp' = [op |-> "processPayout", ok |-> FALSE, arg |-> 0]
            /\ UNCHANGED payout
    /\ UNCHANGED <<now, year, roles, bname, idVars, members, ledger, txns, instVars, grpVars, updates>>

\* POST /api/payouts/:id/skip in request p: one atomic find-and-update of the
\* Pending payout
skipPayout(p) ==
    /\ procs[p].pc = "idle"
    /\ \E id \in PayoutIds :
          LET r == [pc |-> "done", op |-> "skipPayout", at |-> PayoutEpoch, id |-> id,
                    transaction_id |-> 0]
          IN  IF PayoutFilter(payout, id)
              THEN /\ payout' = SkipUpdate(payout, now)
                   /\ procs' = [procs EXCEPT ![p] = r]
                   /\ resp' = [op |-> "skipPayout", ok |-> TRUE, arg |-> 0]
              ELSE /\ procs' = [procs EXCEPT ![p] = [r EXCEPT !.pc = "failed"]]
                   /\ resp' = [op |-> "skipPayout", ok |-> FALSE, arg |-> 0]
                   /\ UNCHANGED payout
    /\ UNCHANGED <<now, year, roles, bname, idVars, members, ledger, txns, instVars, grpVars, updates>>

\* ---------------------------------------------------------------------------
\* Employees and their roles
\* ---------------------------------------------------------------------------
Roles == {"Admin", "Manager", "Employee"}
Employees == {"e1", "e2", "e3"}

\* route guards: manager lets Manager and Admin pass, employee lets every
\* authenticated employee pass
ManagerGate(role) == role \in {"Manager", "Admin"}
EmployeeGate(role) == role \in Roles

\* PUT /api/employees/:id by the authenticated employee c (password, role and
\* branch_id are taken out of the body before the update)
updateEmployee ==
    /\ \E c \in Employees, id \in Employees, role \in {NoRef} \cup Roles :
          resp' = [op |-> "updateEmployee",
                   ok |-> EmployeeGate(roles[c]) /\ ~(roles[c] = "Employee" /\ c # id),
                   arg |-> 0, caller |-> c]
    /\ UNCHANGED <<roles, now, year, payout, bname, procs, idVars, members, ledger, txns,
                   instVars, grpVars, updates>>

\* PUT /api/employees/profile by the authenticated employee c (only password
\* is taken out of the body; a role in the body must pass the enum validator)
updateEmployeeProfile ==
    /\ \E c \in Employees, role \in {NoRef, "Root"} \cup Roles :
          IF EmployeeGate(roles[c]) /\ role \in {NoRef} \cup Roles
          THEN /\ roles' = [roles EXCEPT ![c] = IF role = NoRef THEN @ ELSE role]
               /\ resp' = [op |-> "updateEmployeeProfile", ok |-> TRUE, arg |-> 0,
                           caller |-> c]
          ELSE /\ resp' = [op |-> "updateEmployeeProfile", ok |-> FALSE, arg |-> 0,
                           caller |-> c]
               /\ UNCHANGED roles
    /\ UNCHANGED <<now, year, payout, bname, procs, idVars, members, ledger, txns, instVars,
                   grpVars, updates>>

\* PUT /api/employees/:id/role by the authenticated employee c
updateEmployeeRole ==
    /\ \E c \in Employees, id \in Employees, role \in {NoRef} \cup Roles :
          IF \/ ~ManagerGate(roles[c])
             \/ (roles[c] = "Manager" /\ (role = "Admin" \/ roles[id] = "Manager"))
          THEN /\ resp' = [op |-> "updateEmployeeRole", ok |-> FALSE, arg |-> 0,
                           caller |-> c]
               /\ UNCHANGED roles
          ELSE /\ roles' = [roles EXCEPT ![id] = IF role = NoRef THEN @ ELSE role]
               /\ resp' = [op |-> "updateEmployeeRole", ok |-> TRUE, arg |-> 0,
                           caller |-> c]
    /\ UNCHANGED <<now, year, payout, bname, procs, idVars, members, ledger, txns, instVars,
                   grpVars, updates>>

\* ---------------------------------------------------------------------------
\* Specifications
\* ---------------------------------------------------------------------------
TypeBase ==
    /\ now = 0
    /\ year = 2025
    /\ bname = [b \in Branches |-> IF b = "b1" THEN Zeta ELSE Beta]
    /\ resp = [op |-> "none", ok |-> TRUE, arg |-> 0]
    /\ idIndex = <<>> /\ idCreated = 0 /\ idDeleted = 0 /\ idNew = NoId
    /\ ledger = <<>>
    /\ inst = NoInst
    /\ paidLog = [init |-> 0, saved |-> 0, okSum |-> 0, failed |-> 0]
    /\ receipts = <<>>
    /\ updates = 0
    /\ procs = [p \in Procs |-> Idle]
    /\ payout = NoPayout
    /\ roles = [e \in Employees |-> IF e = "e1" THEN "Admin"
                                  ELSE IF e = "e2" THEN "Manager" ELSE "Employee"]

\* one collection with generated ids, from empty
InitIds ==
    /\ TypeBase
    /\ members = {}
    /\ txns = <<>>
    /\ scheme = [duration_months |-> 1, min_members |-> 1]
    /\ group = NoGroup

NextIds == CreateRecord \/ DeleteRecord

SpecIds == InitIds /\ [][NextIds]_vars

\* creations of one collection that overlap in time
NextIdRace == \E p \in Procs : HookReadLastId(p) \/ InsertRecord(p) \/ EndRequest(p)

SpecIdRace == InitIds /\ [][NextIdRace]_vars

\* the transaction collection seen through its id index, from empty
NextTxnIds == CreateTxnRecord \/ NewYear

SpecTxnIds == InitIds /\ [][NextTxnIds]_vars

\* groups: the members are registered, a scheme has been created
InitGroup ==
    /\ TypeBase
    /\ members = MemberIds
    /\ txns = <<>>
    /\ scheme \in [duration_months : 1..MaxDuration, min_members : 1..MaxMin]
    /\ group = NoGroup

NextGroup ==
    \/ createGroup \/ updateGroup \/ addGroupMember \/ removeGroupMember
    \/ advanceGroupMonth \/ updateScheme

SpecGroup == InitGroup /\ [][NextGroup]_vars

\* a stored transaction the ledger entries can refer to
SomeTxn == [transaction_id |-> <<2, 5, 0, 0, 1>>, branch_id |-> "b1", member_id |-> "m1", group_id |-> NoRef,
            transaction_type |-> "Deposit", amount |-> 1, status |-> "Completed",
            description |-> "", related_transaction |-> 0]

\* ledger: the members are registered and a transaction is stored
InitLedger ==
    /\ TypeBase
    /\ members = MemberIds
    /\ txns = <<SomeTxn>>
    /\ scheme = [duration_months |-> 1, min_members |-> 1]
    /\ group = NoGroup

NextLedger == Tick \/ createLedgerEntry \/ updateLedgerEntry

SpecLedger == InitLedger /\ [][NextLedger]_vars

\* ledger entries created by requests that overlap in time
NextLedgerRace ==
    \E p \in Procs : createLedgerEntryRead(p) \/ createLedgerEntryInsert(p) \/ EndRequest(p)

SpecLedgerRace == InitLedger /\ [][NextLedgerRace]_vars

\* ledger statements: entries are created over time and statements queried
NextStatement == Tick \/ createLedgerEntry \/ getMemberLedger

SpecStatement == InitLedger /\ [][NextStatement]_vars

\* ledger requests: the members are registered, a transaction and a group
\* are stored
InitLedgerRefs ==
    /\ TypeBase
    /\ members = MemberIds
    /\ txns = <<SomeTxn>>
    /\ scheme = [duration_months |-> 1, min_members |-> 1]
    /\ group = [NoGroup EXCEPT !.exists = TRUE]

NextLedgerRefs == createLedgerEntry \/ deleteMember

SpecLedgerRefs == InitLedgerRefs /\ [][NextLedgerRefs]_vars

\* transactions: a member is registered, no group exists
InitTxn ==
    /\ TypeBase
    /\ members = {"m1"}
    /\ txns = <<>>
    /\ scheme = [duration_months |-> 1, min_members |-> 1]
    /\ group = [NoGroup EXCEPT !.exists = TRUE]

NextTxn == createTransaction \/ updateTransaction \/ reverseTransaction

SpecTxn == InitTxn /\ [][NextTxn]_vars

\* installments: one member is registered and in a Forming group
InitInst ==
    /\ TypeBase
    /\ \E m \in MemberIds :
          /\ members = {m}
          /\ group = [exists |-> TRUE, status |-> "Forming", current_month |-> 1,
                      members |-> <<[member_id |-> m, payout_month |-> 1]>>]
    /\ txns = <<>>
    /\ scheme = [duration_months |-> 1, min_members |-> 2]

NextInst ==
    \/ Tick \/ createInstallment \/ recordPayment \/ updateInstallment
    \/ deleteMember

SpecInst == InitInst /\ [][NextInst]_vars

\* payments of one installment by requests that overlap in time
NextPayRace ==
    \/ createInstallment
    \/ \E p \in Procs : recordPaymentLoad(p) \/ recordPaymentSave(p) \/ EndRequest(p)

SpecPayRace == InitInst /\ [][NextPayRace]_vars

\* a second stored transaction
OtherTxn == [SomeTxn EXCEPT !.transaction_id = <<2, 5, 0, 0, 2>>]

\* payouts: a member is registered and in a group, two transactions are stored
InitPayout ==
    /\ TypeBase
    /\ members = MemberIds
    /\ group = [exists |-> TRUE, status |-> "Forming", current_month |-> 1,
                members |-> <<[member_id |-> "m1", payout_month |-> 1]>>]
    /\ txns = <<SomeTxn, OtherTxn>>
    /\ scheme = [duration_months |-> 1, min_members |-> 2]

NextPayout ==
    \/ Tick \/ createPayout
    \/ \E p \in Procs :
          processPayoutCheck(p) \/ processPayoutUpdate(p) \/ skipPayout(p) \/ EndRequest(p)

SpecPayout == InitPayout /\ [][NextPayout]_vars

\* employees: an Admin, a Manager and an Employee send requests
NextEmployee == updateEmployee \/ updateEmployeeProfile \/ updateEmployeeRole

SpecEmployee == InitIds /\ [][NextEmployee]_vars

\* receipts: the members are registered, two branches exist
InitReceipt ==
    /\ TypeBase
    /\ members = MemberIds
    /\ txns = <<>>
    /\ scheme = [duration_months |-> 1, min_members |-> 1]
    /\ group = NoGroup

NextReceipt == NewYear \/ createReceipt \/ updateBranch

SpecReceipt == InitReceipt /\ [][NextReceipt]_vars

\* ---------------------------------------------------------------------------
\* Properties
\* ---------------------------------------------------------------------------
RECURSIVE PrevBalance(_, _, _)
\* scanning back from position k: the balance of the first entry of member m
PrevBalance(l, m, k) ==
    IF k = 0 THEN 0
    ELSE IF l[k].member_id = m THEN l[k].balance
    ELSE PrevBalance(l, m, k - 1)

\* C1: every created ledger entry has balance = balance of the same member's
\* most recently created entry (0 if none) + credit - debit, a missing credit
\* or debit stored and counted as 0; dates and other members play no part
C1_BalanceFromLastCreated ==
    [][Len(ledger') = Len(ledger) + 1 =>
          LET e == ledger'[Len(ledger')]
          IN  /\ e.balance = PrevBalance(ledger, e.member_id, Len(ledger))
                                + e.credit - e.debit
              /\ SubSeq(ledger', 1, Len(ledger)) = ledger]_vars

\* C1 witness: a third entry of a member chained off the second one although
\* the first one carries the later date and another balance
C1_Witness ==
    /\ Len(ledger) = 3
    /\ resp.op = "createLedgerEntry" /\ resp.ok
    /\ \A i \in 1..3 : ledger[i].member_id = "m1"
    /\ ledger[1].date > ledger[2].date
    /\ ledger[1].balance # ledger[2].balance
    /\ ledger[3].balance = ledger[2].balance + ledger[3].credit - ledger[3].debit

\* C2: with creations only, the record created as N-th is handed the id
\* PREFIX + N padded to 3 digits, for every N
C2_NthRecordGetsN ==
    (idDeleted = 0 /\ idNew # NoId) =>
        idNew = PadStart(Digits(IF resp.ok THEN idCreated ELSE idCreated + 1), PadWidth)

\* C3: reverseTransaction on an existing Completed transaction succeeds,
\* appends the negated copy linked to the original and marks the original
\* Reversed, linked to the copy
C3_ReverseCompletedSucceeds ==
    [][(/\ resp'.op = "reverseTransaction"
        /\ resp'.arg \in 1..Len(txns)
        /\ txns[resp'.arg].status = "Completed")
          => LET i == resp'.arg
             IN  /\ resp'.ok
                 /\ Len(txns') = Len(txns) + 1
                 /\ txns'[Len(txns')] = [txns[i] EXCEPT !.amount = -txns[i].amount,
                                                         !.transaction_id =
                                                             NextTxnId(TxnIdIndex(txns), year),
                                                         !.status = "Completed",
                                                         !.description = "Reversal",
                                                         !.related_transaction = i]
                 /\ txns'[i] = [txns[i] EXCEPT !.status = "Reversed",
                                               !.related_transaction = Len(txns')]]_vars

\* the amount of the payment a successful recordPayment step has recorded
PaidNow == receipts'[Len(receipts')].receipt_amount
PayOk == resp'.op = "recordPayment" /\ resp'.ok /\ Len(receipts') = Len(receipts) + 1

\* C4: a recordPayment of P on an installment whose pending_amount <= P
\* leaves it Paid with pending_amount <= 0
C4_FullPaymentIsPaid ==
    [][(PayOk /\ inst.pending_amount <= PaidNow)
          => (inst'.status = "Paid" /\ inst'.pending_amount <= 0)]_vars

\* C5 as stated: a recordPayment of P < pending_amount leaves status Partial
C5_Original ==
    [][(PayOk /\ PaidNow < inst.pending_amount) => inst'.status = "Partial"]_vars

\* C5 amended: a recordPayment of P > 0 below the balance still due
\* (amount - paid_amount, paid_amount >= 0) leaves status Partial when the
\* due date is not in the past and Late when it is
C5_PartialOrLate ==
    [][(PayOk /\ PaidNow > 0 /\ inst.paid_amount >= 0
              /\ PaidNow < inst.amount - inst.paid_amount)
          => inst'.status = IF inst.due_date < now THEN "Late" ELSE "Partial"]_vars

C5_Witness ==
    /\ resp.op = "recordPayment" /\ resp.ok
    /\ inst.paid_amount > 0 /\ inst.pending_amount > 0
    /\ inst.amount - inst.paid_amount = inst.pending_amount
    /\ inst.due_date < now
    /\ inst.status = "Late"

\* C6 as stated: at every time an installment past its due date with
\* pending_amount > 0 has status Late
C6_Original ==
    (inst.exists /\ inst.due_date < now /\ inst.pending_amount > 0)
        => inst.status = "Late"

\* C6 amended: right after every save of the installment (createInstallment,
\* recordPayment) an installment past its due date with pending_amount > 0
\* has status Late
C6_LateAtSave ==
    [][((\/ (resp'.op = "createInstallment" /\ resp'.ok)
         \/ (resp'.op = "recordPayment" /\ paidLog'.saved = paidLog.saved + 1))
        /\ inst'.due_date < now' /\ inst'.pending_amount > 0)
          => inst'.status = "Late"]_vars

C6_Witness ==
    /\ resp.op = "createInstallment" /\ resp.ok
    /\ inst.due_date < now /\ inst.pending_amount > 0
    /\ inst.status = "Late"

\* C7: after successful recordPayment calls on an installment created with
\* paid_amount 0, paid_amount is the sum of the amounts paid and
\* pending_amount is amount - paid_amount
C7_PaidAccumulates ==
    [][(PayOk /\ paidLog'.init = 0 /\ paidLog'.failed = 0)
          => (/\ inst'.paid_amount = paidLog'.okSum
              /\ inst'.pending_amount = inst'.amount - inst'.paid_amount)]_vars

C7_Witness ==
    /\ resp.op = "recordPayment" /\ resp.ok
    /\ Len(receipts) = 2 /\ paidLog.init = 0 /\ paidLog.failed = 0
    /\ receipts[1].receipt_amount > 0 /\ receipts[2].receipt_amount > 0
    /\ inst.paid_amount = receipts[1].receipt_amount + receipts[2].receipt_amount

\* C8: the payout months of a group's members are pairwise distinct and lie
\* in 1..duration_months of the scheme
C8_PayoutMonthsValid ==
    group.exists =>
        /\ \A j, k \in 1..Len(group.members) :
               j # k => group.members[j].payout_month # group.members[k].payout_month
        /\ \A k \in 1..Len(group.members) :
               group.members[k].payout_month \in 1..scheme.duration_months

\* C9: a successful add sets a Forming group Active exactly when the count
\* reaches min_members, a successful remove sets an Active group Forming
\* exactly when the count falls below it, and no other add or remove changes
\* the status
C9_StatusFollowsMinMembers ==
    [][/\ (resp'.op = "addGroupMember" /\ resp'.ok)
           => group'.status =
                 IF group.status = "Forming" /\ Len(group'.members) >= scheme.min_members
                 THEN "Active" ELSE group.status
       /\ (resp'.op = "removeGroupMember" /\ resp'.ok)
           => group'.status =
                 IF group.status = "Active" /\ Len(group'.members) < scheme.min_members
                 THEN "Forming" ELSE group.status
       /\ (resp'.op \in {"addGroupMember", "removeGroupMember"} /\ ~resp'.ok)
           => group' = group]_vars

C9_Witness ==
    /\ resp.op = "addGroupMember" /\ resp.ok
    /\ group.status = "Active"
    /\ Len(group.members) = scheme.min_members
    /\ Len(group.members) = 2

\* C10: advanceGroupMonth on an Active group adds 1 to current_month and
\* keeps it Active below the scheme duration, and otherwise sets Completed
\* and keeps current_month
C10_AdvanceStep ==
    [][(resp'.op = "advanceGroupMonth" /\ group.exists /\ group.status = "Active")
          => IF group.current_month < scheme.duration_months
             THEN group'.current_month = group.current_month + 1
                  /\ group'.status = "Active"
             ELSE group'.current_month = group.current_month
                  /\ group'.status = "Completed"]_vars

\* C11: a transaction created without an explicit id is stored with the id
\* TXN<YY><NNN>, YY the current 2-digit year: NNN is 001 when no transaction
\* exists or the year in the last transaction's id differs from the current
\* year, and otherwise the last id's numeric suffix + 1 padded to 3 digits
C11_TxnIdYearCounter ==
    [][resp'.op = "createTxnRecord"
          => /\ resp'.ok
             /\ idNew' = YearSuffix(year) \o
                    (IF idNew = NoId \/ SubSeq(idNew, 1, 2) # YearSuffix(year)
                     THEN <<0, 0, 1>>
                     ELSE PadStart(Digits(ParseInt(SubSeq(idNew, 3, Len(idNew))) + 1),
                                   3))]_vars

\* C12: reverseTransaction on a transaction whose status is Reversed is
\* rejected with the error "Transaction already reversed", creates no
\* transaction and leaves the original (and every other transaction) unchanged
C12_ReverseReversedRejected ==
    [][(/\ resp'.op = "reverseTransaction"
        /\ resp'.arg \in 1..Len(txns)
        /\ txns[resp'.arg].status = "Reversed")
          => (/\ ~resp'.ok
              /\ resp'.err = "Transaction already reversed"
              /\ txns' = txns)]_vars

C12_Witness ==
    /\ resp.op = "reverseTransaction" /\ ~resp.ok
    /\ resp.arg \in 1..Len(txns)
    /\ txns[resp.arg].status = "Reversed"
    /\ txns[resp.arg].related_transaction # 0
    /\ resp.err = "Transaction already reversed"

\* C13: createTransaction is rejected and stores nothing when the type is
\* Deposit or Withdrawal and no member reference is given, and when the type
\* is Installment or Auction and no group reference is given
C13_CreateNeedsMemberOrGroup ==
    [][(/\ resp'.op = "createTransaction"
        /\ \/ /\ resp'.req.transaction_type \in {"Deposit", "Withdrawal"}
              /\ resp'.req.member_id = NoRef
           \/ /\ resp'.req.transaction_type \in {"Installment", "Auction"}
              /\ resp'.req.group_id = NoRef)
          => (~resp'.ok /\ txns' = txns)]_vars

\* C13 witness: an Auction request for a registered member and without a
\* group has been rejected
C13_Witness ==
    /\ resp.op = "createTransaction" /\ ~resp.ok
    /\ resp.req.transaction_type = "Auction" /\ resp.req.group_id = NoRef
    /\ resp.req.member_id = "m1"
    /\ txns = <<>>

C15_NonPositiveRejected ==
    [][(/\ resp'.op = "recordPayment" /\ inst.exists
        /\ (resp'.paid = Undef \/ resp'.paid[1] <= 0))
          => (~resp'.ok /\ inst' = inst /\ receipts' = receipts)]_vars

\* C16: recordPayment on an installment with status Paid and
\* pending_amount <= 0 is rejected, leaves every field of the installment
\* unchanged and creates no receipt
C16_PaidIsFinal ==
    [][(/\ resp'.op = "recordPayment" /\ inst.exists
        /\ inst.status = "Paid" /\ inst.pending_amount <= 0)
          => (~resp'.ok /\ inst' = inst /\ receipts' = receipts)]_vars

\* C16 witness: a payment has completed the installment and the next
\* payment request, of a positive amount, has been rejected
C16_Witness ==
    /\ resp.op = "recordPayment" /\ ~resp.ok
    /\ resp.paid # Undef /\ resp.paid[1] > 0
    /\ inst.exists /\ inst.status = "Paid" /\ inst.pending_amount = 0
    /\ inst.paid_amount = inst.amount /\ inst.amount > 0
    /\ Len(receipts) = 1 /\ paidLog.saved = 1

\* C17: every recordPayment that reports success has created exactly one
\* receipt, whose branch is the paying member's branch and whose member,
\* group, amount and payment mode are the installment's member and group and
\* the amount and mode of this call
C17_ReceiptPerPayment ==
    [][(resp'.op = "recordPayment" /\ resp'.ok)
          => (/\ Len(receipts') = Len(receipts) + 1
              /\ SubSeq(receipts', 1, Len(receipts)) = receipts
              /\ LET r == receipts'[Len(receipts')]
                 IN  /\ r.branch_id = MemberBranch(inst.member_id)
                     /\ r.member_id = inst.member_id
                     /\ r.group_id = inst.group_id
                     /\ r.receipt_amount = resp'.paid[1]
                     /\ r.payment_mode = inst'.payment_mode)]_vars

\* C17 witness: a second payment has succeeded on an installment of member
\* m2, and the two receipts carry the two amounts
C17_Witness ==
    /\ resp.op = "recordPayment" /\ resp.ok
    /\ inst.member_id = "m2"
    /\ Len(receipts) = 2
    /\ receipts[2].branch_id = "b2" /\ receipts[2].group_id = "g1"
    /\ receipts[1].receipt_amount = 1 /\ receipts[2].receipt_amount = MaxAmount
    /\ receipts[2].payment_mode = "Online" /\ inst.payment_mode = "Online"
    /\ inst.paid_amount = 1 + MaxAmount

\* the most recently created receipt of branch b, 0 when it has none
PrevReceipt(l, b) ==
    LET own == {i \in 1..Len(l) : l[i].branch_id = b}
    IN  IF own = {} THEN 0 ELSE CHOOSE i \in own : \A j \in own : j <= i

\* C19: each created receipt gets receipt_no = <upper-cased first three
\* letters of its branch's name>-<2-digit year>-<5-digit sequence>, the
\* sequence being 1 for the branch's first receipt and otherwise the sequence
\* of the branch's previous receipt + 1
C19_ReceiptNoPerBranch ==
    [][Len(receipts') = Len(receipts) + 1
          => LET r == receipts'[Len(receipts')]
                 prev == PrevReceipt(receipts, r.branch_id)
                 seq == IF prev = 0 THEN 1 ELSE LastSeq(receipts[prev].receipt_no) + 1
             IN  r.receipt_no = BranchCode(bname[r.branch_id]) \o <<45>>
                                  \o DigitChars(YearSuffix(year)) \o <<45>>
                                  \o DigitChars(PadStart(Digits(seq), 5))]_vars

\* C18: getMemberLedger for a date range returns as opening_balance the
\* balance - credit + debit of the member's first entry within the range
\* (by date, then creation) and as closing_balance the balance of the last
\* entry within the range; both are 0 when no entry is in the range
C18_StatementBalances ==
    [][(resp'.op = "getMemberLedger" /\ resp'.ok)
          => LET q == resp'.req
                 own == {i \in 1..Len(ledger) :
                           /\ ledger[i].member_id = q.member_id
                           /\ (q.startDate # Undef => ledger[i].date >= q.startDate[1])
                           /\ (q.endDate # Undef => ledger[i].date <= q.endDate[1])}
             IN  IF own = {}
                 THEN resp'.opening_balance = 0 /\ resp'.closing_balance = 0
                 ELSE LET f == ledger[FirstByDate(ledger, own)]
                          e == ledger[LastByDate(ledger, own)]
                      IN  /\ resp'.opening_balance = f.balance - f.credit + f.debit
                          /\ resp'.closing_balance = e.balance]_vars

\* C20: createLedgerEntry is rejected and stores no entry when the branch,
\* member or transaction reference is missing or does not resolve, or when
\* a group reference is given and does not resolve; a request whose branch,
\* member and transaction resolve and that has no group reference is accepted
C20_LedgerReferences ==
    [][resp'.op = "createLedgerEntry"
          => LET q == resp'.req
                 required == /\ q.branch_id \in Branches
                             /\ q.member_id \in members
                             /\ q.transaction_id \in 1..Len(txns)
             IN  /\ (~required \/ (q.group_id # NoRef /\ ~(q.group_id = "g1" /\ group.exists)))
                       => (~resp'.ok /\ ledger' = ledger)
                 /\ (required /\ q.group_id = NoRef)
                       => (/\ resp'.ok
                           /\ Len(ledger') = Len(ledger) + 1
                           /\ ledger'[Len(ledger')].group_id = NoRef)]_vars

\* C20 witness: an entry without a group is stored, and a request naming a
\* group that does not exist, with the other references in order, is rejected
C20_Witness ==
    /\ Len(ledger) = 1 /\ ledger[1].group_id = NoRef
    /\ resp.op = "createLedgerEntry" /\ ~resp.ok
    /\ resp.req.branch_id = "b1" /\ resp.req.member_id \in members
    /\ resp.req.transaction_id = 1 /\ resp.req.group_id = "gX"

\* C21: each member's ledger entries, in creation order, satisfy
\* balance_i = balance_{i-1} + credit_i - debit_i with balance_0 = 0
C21_LedgerChain ==
    \A i \in 1..Len(ledger) :
        ledger[i].balance = PrevBalance(ledger, ledger[i].member_id, i - 1)
                              + ledger[i].credit - ledger[i].debit

\* requests p and q have both read, and read the same snapshot
SameSnapshot(p, q) ==
    /\ p # q
    /\ procs[p].pc # "idle" /\ procs[q].pc # "idle"
    /\ procs[p].at = procs[q].at

\* C22: two creations that both read the last id before either writes compute
\* the same next id; the unique index then lets only one of the two inserts
\* succeed, so the other creation fails and no id is stored twice
C22_OverlapSameId ==
    \A p, q \in Procs :
        SameSnapshot(p, q) =>
            /\ procs[p].id = procs[q].id
            /\ ~(procs[p].pc = "done" /\ procs[q].pc = "done")
            /\ \A i, j \in 1..Len(idIndex) : idIndex[i] = idIndex[j] => i = j
C22_Witness ==
    /\ SameSnapshot("p1", "p2")
    /\ procs["p1"].pc = "done" /\ procs["p2"].pc = "failed"
    /\ procs["p1"].id = procs["p2"].id
    /\ ~resp.ok

RECURSIVE NetSum(_, _, _)
\* credits minus debits of the first k entries that belong to member m
NetSum(l, m, k) ==
    IF k = 0 THEN 0
    ELSE NetSum(l, m, k - 1)
           + (IF l[k].member_id = m THEN l[k].credit - l[k].debit ELSE 0)

\* C23: every entry createLedgerEntry stores carries the balance the request
\* read before its insert plus credit minus debit, so two requests for one
\* member that both read before either inserts build on the same predecessor
C23_StaleBalance ==
    [][\A p \in Procs :
          (procs[p].pc = "read" /\ procs'[p].pc = "done") =>
              /\ Len(ledger') = Len(ledger) + 1
              /\ ledger'[Len(ledger')].balance
                     = procs[p].lastBalance + procs[p].credit - procs[p].debit
              /\ \A q \in Procs :
                     (/\ q # p /\ procs[q].pc \in {"read", "done"}
                      /\ procs[q].at = procs[p].at
                      /\ procs[q].member_id = procs[p].member_id)
                     => procs[q].lastBalance = procs[p].lastBalance]_vars
\* both overlapping requests of member m1 have answered and the member's
\* latest balance is not the sum of its credits minus its debits
C23_Witness ==
    /\ procs["p1"].pc = "done" /\ procs["p2"].pc = "done"
    /\ procs["p1"].at = procs["p2"].at
    /\ procs["p1"].member_id = "m1" /\ procs["p2"].member_id = "m1"
    /\ LastBalance(ledger, "m1") # NetSum(ledger, "m1", Len(ledger))

\* C24: every recordPayment that saves adds its amount to the paid_amount it
\* loaded, not to the stored one, and still reports success with a receipt;
\* two calls that both load before either saves build on the same old total
C24_StalePaidAmount ==
    [][\A p \in Procs :
          (procs[p].pc = "read" /\ procs'[p].pc # "read") =>
              /\ inst'.paid_amount = procs[p].doc.paid_amount + procs[p].paid_amount
              /\ resp'.ok /\ procs'[p].pc = "done"
              /\ Len(receipts') = Len(receipts) + 1
              /\ receipts'[Len(receipts')].receipt_amount = procs[p].paid_amount]_vars
\* both overlapping calls reported success, two receipts exist and the stored
\* paid_amount holds only the second payment on top of the loaded total
C24_Witness ==
    /\ procs["p1"].pc = "done" /\ procs["p2"].pc = "done"
    /\ procs["p1"].at = procs["p2"].at
    /\ procs["p1"].doc = procs["p2"].doc
    /\ Len(receipts) = 2
    /\ paidLog.okSum = procs["p1"].paid_amount + procs["p2"].paid_amount
    /\ inst.paid_amount \in {procs["p1"].doc.paid_amount + procs["p1"].paid_amount,
                              procs["p2"].doc.paid_amount + procs["p2"].paid_amount}
    /\ inst.paid_amount # procs["p1"].doc.paid_amount + paidLog.okSum

\* C25: when recordPayment has saved the installment and the receipt step then
\* fails because the member no longer exists, the call answers with an error,
\* no receipt is added and the installment keeps the increased paid_amount,
\* the new status and the late fee
C25_NoCompensation ==
    [][(/\ resp'.op = "recordPayment"
        /\ paidLog'.saved = paidLog.saved + 1
        /\ ~MemberFound(inst.member_id))
       => /\ ~resp'.ok
          /\ receipts' = receipts
          /\ inst'.paid_amount = inst.paid_amount + resp'.paid[1]
          /\ inst'.pending_amount = inst.amount - inst'.paid_amount
          /\ inst'.late_fee100 = (IF now > inst.due_date
                                  THEN inst.amount * LateFeeRatePct * (now - inst.due_date)
                                  ELSE 0)
          /\ (inst'.paid_amount >= inst.amount /\ inst.amount > 0
                 => inst'.status = "Paid")]_vars
\* a payment of a positive amount was saved, its receipt failed, and the
\* installment moved from Pending to Paid without any receipt
C25_Witness ==
    /\ resp.op = "recordPayment" /\ ~resp.ok
    /\ paidLog.failed = 1 /\ paidLog.saved = 1
    /\ ~MemberFound(inst.member_id)
    /\ inst.paid_amount > paidLog.init /\ inst.status = "Paid"
    /\ receipts = <<>>

\* request p answers in this step, with success (done) or an error (failed)
Answers(p) == procs[p].pc \notin {"done", "failed"} /\ procs'[p].pc \in {"done", "failed"}

\* C26: a payout's status changes only from Pending to Paid by processPayout
\* or from Pending to Skipped by skipPayout; processPayout and skipPayout on a
\* payout that is not Pending, and processPayout with a transaction that does
\* not exist, are rejected and leave the payout unchanged; a payout set to
\* Paid carries the transaction of the request, which exists
C26_PayoutStatus ==
    [][/\ (payout.exists /\ payout'.status # payout.status) =>
             /\ payout.status = "Pending"
             /\ \E p \in Procs :
                   /\ Answers(p) /\ procs'[p].pc = "done" /\ resp'.ok
                   /\ \/ /\ procs'[p].op = "processPayout" /\ payout'.status = "Paid"
                         /\ payout'.transaction_id = procs'[p].transaction_id
                         /\ TransactionFound(payout'.transaction_id)
                      \/ procs'[p].op = "skipPayout" /\ payout'.status = "Skipped"
       /\ \A p \in Procs :
             (/\ Answers(p)
              /\ \/ payout.exists /\ payout.status # "Pending"
                 \/ /\ procs'[p].op = "processPayout"
                    /\ ~TransactionFound(procs'[p].transaction_id))
             => procs'[p].pc = "failed" /\ ~resp'.ok /\ payout' = payout]_vars
\* a payout was processed with an existing transaction and a later skipPayout
\* on it was rejected
C26_Witness ==
    /\ payout.exists /\ payout.status = "Paid" /\ payout.transaction_id = 2
    /\ resp.op = "skipPayout" /\ ~resp.ok
    /\ \E p \in Procs : procs[p].pc = "failed" /\ procs[p].op = "skipPayout"
                         /\ procs[p].id = "y1" /\ procs[p].at = 1

\* C27: of the processPayout and skipPayout requests that overlap on one
\* Pending payout exactly one succeeds: a request succeeds only on a Pending
\* payout and while no other request has succeeded, the payout then carries
\* the status, payment_date and transaction link of that request, and a
\* request that finds the payout no longer Pending is rejected and changes
\* nothing
C27_OneWinner ==
    [][\A p \in Procs :
          /\ (Answers(p) /\ procs'[p].pc = "done") =>
                /\ payout.exists /\ payout.status = "Pending"
                /\ \A q \in Procs \ {p} : procs[q].pc # "done"
                /\ payout'.payment_date = <<now>>
                /\ IF procs'[p].op = "processPayout"
                   THEN /\ payout'.status = "Paid"
                        /\ payout'.transaction_id = procs'[p].transaction_id
                   ELSE /\ payout'.status = "Skipped"
                        /\ payout'.transaction_id = payout.transaction_id
          /\ (Answers(p) /\ payout.exists /\ payout.status # "Pending") =>
                procs'[p].pc = "failed" /\ ~resp'.ok /\ payout' = payout]_vars
\* two processPayout requests with different transactions were both in flight
\* on the Pending payout; the first succeeded, the second was rejected, and
\* the payout carries the first request's transaction
C27_Witness ==
    /\ procs["p1"].pc = "done" /\ procs["p2"].pc = "failed"
    /\ procs["p1"].op = "processPayout" /\ procs["p2"].op = "processPayout"
    /\ procs["p1"].at = 0 /\ procs["p2"].at = 0
    /\ procs["p1"].id = "y1" /\ procs["p2"].id = "y1"
    /\ procs["p1"].transaction_id = 1 /\ procs["p2"].transaction_id = 2
    /\ payout.exists /\ payout.status = "Paid" /\ payout.transaction_id = 1

\* C28: after any sequence of one-at-a-time creations and deletions, no two
\* stored records carry the same generated id, also once ids are longer than
\* PadWidth digits (the stored ids, listed in string order, strictly increase)
C28_IdsUnique ==
    \A i \in 1..(Len(idIndex) - 1) : StrLess(idIndex[i], idIndex[i + 1])
\* the counter has passed 999: the id 1000 is stored, a record was deleted and
\* a further creation computed an id that is already stored
C28_Witness ==
    /\ HasKey(idIndex, <<1, 0, 0, 0>>)
    /\ idDeleted > 0
    /\ resp.op = "createRecord" /\ ~resp.ok
    /\ HasKey(idIndex, idNew)

\* C29: every transaction with status Reversed has a related_transaction that
\* refers to a stored transaction whose own related_transaction refers back
C29_ReversedLinked ==
    \A i \in 1..Len(txns) :
        txns[i].status = "Reversed" =>
            /\ txns[i].related_transaction \in 1..Len(txns)
            /\ txns[txns[i].related_transaction].related_transaction = i

====
